---------------------------- MODULE Spec2Model ----------------------------
(***************************************************************************)
(* LivingMemoryManual (src/main.py): manual insertion of memory records    *)
(* into the MemoryEngine owned by the LivingMemory plugin.                  *)
(*                                                                         *)
(* Program state: the cached engine handle (self._memory_engine) and the   *)
(* configured default importance.  Every invocation of insert_memory or    *)
(* lmput_cmd is a coroutine of the host's single-threaded event loop: it   *)
(* runs without interruption from one await/yield to the next.  `running`  *)
(* names the coroutine that holds the loop; everything else (other         *)
(* invocations, the owning plugin, terminate) moves only while it is 0.    *)
(*                                                                         *)
(* Text is kept run-length encoded (a sequence of runs [c, n]) so that the *)
(* program's real limits (4096, 50, 5) are used as they stand.             *)
(* Importance is a fixed-point number in tenths (1.0 is ONE).              *)
(***************************************************************************)
EXTENDS Integers, Sequences, FiniteSets, TLC

(***************************************************************************)
(* Bounds of the model                                                     *)
(***************************************************************************)
NumInv == 2
NumEngines == 2

(***************************************************************************)
(* Program constants                                                       *)
(***************************************************************************)
DEFAULT_IMPORTANCE == 8
ZERO == 0
ONE == 10
MAX_TEXT_LEN == 4096
TOPIC_EXCERPT_LEN == 50
MAX_SUMMARY_FACTS == 5

Invs == 1..NumInv
EngineIds == 1..NumEngines
None == 0

Min(a, b) == IF a <= b THEN a ELSE b
Max(a, b) == IF a >= b THEN a ELSE b

(***************************************************************************)
(* Python str, run-length encoded: a sequence of runs [c, n], n >= 1,      *)
(* adjacent runs of different c.  c is a character, or a whole word where  *)
(* only equality matters (a sentiment label, the text of str(None)).       *)
(***************************************************************************)
Whitespace == {" ", "\n"}

Rep(ch, k) == IF k <= 0 THEN <<>> ELSE <<[c |-> ch, n |-> k]>>
Lit(ch) == Rep(ch, 1)

RECURSIVE StrLen(_)
StrLen(s) == IF s = <<>> THEN 0 ELSE Head(s).n + StrLen(Tail(s))

Cat(s, t) ==
    IF s = <<>> THEN t
    ELSE IF t = <<>> THEN s
    ELSE IF s[Len(s)].c = Head(t).c
         THEN SubSeq(s, 1, Len(s) - 1)
              \o <<[c |-> Head(t).c, n |-> s[Len(s)].n + Head(t).n]>>
              \o Tail(t)
         ELSE s \o t

RECURSIVE LStrip(_)
LStrip(s) ==
    IF s # <<>> /\ Head(s).c \in Whitespace THEN LStrip(Tail(s)) ELSE s

RECURSIVE RStrip(_)
RStrip(s) ==
    IF s # <<>> /\ s[Len(s)].c \in Whitespace
    THEN RStrip(SubSeq(s, 1, Len(s) - 1))
    ELSE s

\* str.strip()
Strip(s) == RStrip(LStrip(s))

\* s[:k]
RECURSIVE Take(_, _)
Take(s, k) ==
    IF k <= 0 \/ s = <<>> THEN <<>>
    ELSE IF Head(s).n >= k THEN Rep(Head(s).c, k)
    ELSE <<Head(s)>> \o Take(Tail(s), k - Head(s).n)

\* sep.join(xs)
RECURSIVE Join(_, _)
Join(sep, xs) ==
    IF xs = <<>> THEN <<>>
    ELSE IF Len(xs) = 1 THEN xs[1]
    ELSE Cat(Cat(xs[1], sep), Join(sep, Tail(xs)))

\* the one character U+FF1B (fullwidth semicolon)
FACT_SEP == Lit("U+FF1B")
SUMMARY_SEP == Cat(Cat(Lit(" "), Lit("|")), Lit(" "))

(***************************************************************************)
(* JSON / Python values, all of one record shape                           *)
(***************************************************************************)
JV(tag, str, elems, num) == [t |-> tag, s |-> str, items |-> elems, n |-> num]
Absent == JV("absent", <<>>, <<>>, 0)
JNull == JV("null", <<>>, <<>>, 0)
JTrue == JV("bool", <<>>, <<>>, 1)
JStr(s) == JV("str", s, <<>>, 0)
JList(xs) == JV("list", <<>>, xs, 0)
JNum(k) == JV("num", <<>>, <<>>, k)

\* isinstance(v, list)
IsList(v) == v.t = "list"

\* bool(v)
Truthy(v) ==
    CASE v.t = "str" -> v.s # <<>>
      [] v.t = "list" -> v.items # <<>>
      [] v.t = "num" -> v.n # 0
      [] v.t = "bool" -> v.n # 0
      [] OTHER -> FALSE

\* str(v), for the values that reach it here
PyStr(v) ==
    CASE v.t = "str" -> v.s
      [] v.t = "null" -> Lit("None")
      [] v.t = "bool" -> Lit("True")

StrAll(xs) == [k \in 1..Len(xs) |-> PyStr(xs[k])]

\* max(0.0, min(1.0, importance))
\* a clamp that forgets the floor
Clamp_NoFloor(x) == Min(ONE, x)

Clamp(x) == Max(ZERO, Min(ONE, x))

\* canonical_parts = [text]; if key_facts: append(U+FF1B.join(...[:5])); " | ".join
CanonicalSummary(text, key_facts) ==
    IF key_facts # <<>>
    THEN Join(SUMMARY_SEP,
              <<text,
                Join(FACT_SEP,
                     StrAll(SubSeq(key_facts, 1,
                                   Min(MAX_SUMMARY_FACTS, Len(key_facts)))))>>)
    ELSE Join(SUMMARY_SEP, <<text>>)


(***************************************************************************)
(* _analyze_with_llm: the completion text and what the code makes of it    *)
(***************************************************************************)
\* a dict read through the three keys the code reads; Absent: key not in dict
Dict3(tp, kf, se) == [topics |-> tp, key_facts |-> kf, sentiment |-> se]
EmptyDict == Dict3(Absent, Absent, Absent)

\* d.get(k)
Get(d, k) == IF d[k] = Absent THEN JNull ELSE d[k]
\* d.get(k, default)
GetOr(d, k, default) == IF d[k] = Absent THEN default ELSE d[k]

POSITIVE == JStr(Lit("positive"))
NEGATIVE == JStr(Lit("negative"))
NEUTRAL == JStr(Lit("neutral"))
Sentiments == {POSITIVE, NEGATIVE, NEUTRAL}

\* field checks that let any sentiment through
ValidateParsed_AnySentiment(text, parsed) ==
    Dict3(IF ~IsList(Get(parsed, "topics"))
          THEN JList(<<JStr(Take(text, TOPIC_EXCERPT_LEN))>>)
          ELSE parsed.topics,
          IF ~IsList(Get(parsed, "key_facts"))
          THEN JList(<<JStr(text)>>)
          ELSE parsed.key_facts,
          GetOr(parsed, "sentiment", NEUTRAL))

\* lines 279-287: the field checks on a parsed JSON object
ValidateParsed(text, parsed) ==
    Dict3(IF ~IsList(Get(parsed, "topics"))
          THEN JList(<<JStr(Take(text, TOPIC_EXCERPT_LEN))>>)
          ELSE parsed.topics,
          IF ~IsList(Get(parsed, "key_facts"))
          THEN JList(<<JStr(text)>>)
          ELSE parsed.key_facts,
          IF Get(parsed, "sentiment") \notin Sentiments
          THEN NEUTRAL
          ELSE parsed.sentiment)

(* A completion text, by its parts: surrounding whitespace, an opening     *)
(* code fence (none, bare, json, or py: a language tag the regex leaves    *)
(* behind), a closing fence, and the payload between them: empty, garbage  *)
(* (not JSON), truncated (a cut-off JSON object), value (a JSON value that *)
(* is no object) or object (with its dict).                                *)
Completion(w, o, c, k, d) ==
    [ws |-> w, open |-> o, close |-> c, kind |-> k, obj |-> d]

\* not result_text: the text is empty (or None)
IsFalsyText(r) ==
    r.kind = "empty" /\ r.open = "none" /\ ~r.close /\ ~r.ws

\* lines 270-277: strip, drop the fences, json.loads; TRUE when it raises
\* JSONDecodeError
JsonDecodeError(r) ==
    LET fenced == r.open # "none"           \* startswith three backticks
        junkBefore == r.open = "py"         \* the tag py is left in front
        junkAfter == r.close /\ ~fenced     \* the closing fence is left behind
    IN  junkBefore \/ junkAfter \/ r.kind \in {"empty", "garbage", "truncated"}

\* lines 265-305, after text_chat answered: outcome.raised, or outcome.text
AnalyzeCompletion(text, outcome) ==
    IF outcome.raised THEN EmptyDict                        \* except Exception
    ELSE IF IsFalsyText(outcome.text) THEN EmptyDict        \* line 266
    ELSE IF JsonDecodeError(outcome.text) THEN EmptyDict    \* line 296
    ELSE IF outcome.text.kind # "object" THEN EmptyDict     \* .get: AttributeError
    ELSE ValidateParsed(text, outcome.text.obj)

(***************************************************************************)
(* insert_memory: its pure steps                                           *)
(***************************************************************************)
Msg(id, len, err) == [id |-> id, len |-> len, err |-> err]
NoId == 0
Result(ok, message, mid) == [success |-> ok, message |-> message, memory_id |-> mid]
NoResult == Result(FALSE, Msg("", 0, ""), NoId)

MSG_EMPTY == Msg("text must not be empty", 0, "")
MSG_TOO_LONG(k) == Msg("text too long, max 4096", k, "")
MSG_NO_ENGINE == Msg("cannot get MemoryEngine", 0, "")
MSG_DB_FAIL == Msg("DocumentStorage connection cannot be initialized", 0, "")
MSG_OK == Msg("inserted", 0, "")
MSG_ADD_FAILED(e) == Msg("insert failed", 0, e)

\* a validation that tests the text for emptiness before trimming only
ValidateText_NoStrip(text) ==
    IF text = <<>>
    THEN [ok |-> FALSE, text |-> text, result |-> Result(FALSE, MSG_EMPTY, NoId)]
    ELSE LET t == Strip(text)
         IN  IF StrLen(t) > MAX_TEXT_LEN
             THEN [ok |-> FALSE, text |-> t,
                   result |-> Result(FALSE, MSG_TOO_LONG(StrLen(t)), NoId)]
             ELSE [ok |-> TRUE, text |-> t, result |-> NoResult]

\* a validation that names the length of the text as it was handed in
ValidateText_RawLen(text) ==
    IF text = <<>> \/ Strip(text) = <<>>
    THEN [ok |-> FALSE, text |-> text, result |-> Result(FALSE, MSG_EMPTY, NoId)]
    ELSE LET t == Strip(text)
         IN  IF StrLen(t) > MAX_TEXT_LEN
             THEN [ok |-> FALSE, text |-> t,
                   result |-> Result(FALSE, MSG_TOO_LONG(StrLen(text)), NoId)]
             ELSE [ok |-> TRUE, text |-> t, result |-> NoResult]

\* lines 336-344: [ok, text (stripped), result]
ValidateText(text) ==
    IF text = <<>> \/ Strip(text) = <<>>
    THEN [ok |-> FALSE, text |-> text, result |-> Result(FALSE, MSG_EMPTY, NoId)]
    ELSE LET t == Strip(text)
         IN  IF StrLen(t) > MAX_TEXT_LEN
             THEN [ok |-> FALSE, text |-> t,
                   result |-> Result(FALSE, MSG_TOO_LONG(StrLen(t)), NoId)]
             ELSE [ok |-> TRUE, text |-> t, result |-> NoResult]

\* lines 358-361; importance is JNull (None) or a number
NormalizeImportance(importance, default) ==
    Clamp(IF importance = JNull THEN default ELSE importance.n)

Metadata(tp, kf, se, cs, ps) ==
    [topics |-> tp, key_facts |-> kf, sentiment |-> se,
     interaction_type |-> "private_chat",
     canonical_summary |-> cs, persona_summary |-> ps,
     summary_schema_version |-> "v2", summary_quality |-> "normal"]
NoMeta == Metadata(Absent, Absent, Absent, Absent, Absent)

\* a merge that trusts the analysis to hold every field
BuildMetadata_NoDefaults(text, analyzed) ==
    Metadata(analyzed.topics, analyzed.key_facts, analyzed.sentiment,
             JStr(CanonicalSummary(text, analyzed.key_facts.items)),
             JStr(text))

\* lines 366-382
BuildMetadata(text, analyzed) ==
    LET key_facts == GetOr(analyzed, "key_facts", JList(<<JStr(text)>>))
    IN  Metadata(GetOr(analyzed, "topics",
                       JList(<<JStr(Take(text, TOPIC_EXCERPT_LEN))>>)),
                 key_facts,
                 GetOr(analyzed, "sentiment", NEUTRAL),
                 JStr(CanonicalSummary(text, key_facts.items)),
                 JStr(text))

(***************************************************************************)
(* lmput_cmd: its pure steps                                               *)
(***************************************************************************)
\* the JSON object of the message, read through the keys the code reads
Data(tx, tp, kf, se, im, cs, ps) ==
    [text |-> tx, topics |-> tp, key_facts |-> kf, sentiment |-> se,
     importance |-> im, canonical_summary |-> cs, persona_summary |-> ps]
NoData == Data(Absent, Absent, Absent, Absent, Absent, Absent, Absent)

(* The message: match (the regex finds <...>), and what json.loads makes   *)
(* of the text between the brackets: "bad_json" (JSONDecodeError),         *)
(* "scalar" (a number or null), "list" (a list without the field names)    *)
(* or "object" (a dict, data).                                             *)
Message(m, j, d) == [match |-> m, json |-> j, data |-> d]

NoMessage == Message(FALSE, "", NoData)

MSG_USAGE == Msg("usage: /lmput <JSON>", 0, "")
MSG_BAD_JSON == Msg("JSON parse failed", 0, "")
MSG_MISSING(fields) == Msg("missing required fields", 0, fields)
MSG_TEXT_EMPTY == Msg("text must not be empty", 0, "lmput")
MSG_TOPICS_TYPE == Msg("topics must be an array", 0, "")
MSG_KEY_FACTS_TYPE == Msg("key_facts must be an array", 0, "")
MSG_SENTIMENT == Msg("sentiment must be positive / negative / neutral", 0, "")

RequiredFields == <<"text", "topics", "key_facts", "sentiment">>

\* lines 562-565: the required fields not in data, in order
MissingFields(data) ==
    SelectSeq(RequiredFields, LAMBDA f : data[f] = Absent)

\* lines 535-591: [ok, text (str(...).strip()), result, raised]
ParseMessage(msg) ==
    LET fail(r) == [ok |-> FALSE, text |-> <<>>, result |-> r, raised |-> ""]
        data == msg.data
    IN  IF ~msg.match THEN fail(Result(FALSE, MSG_USAGE, NoId))
        ELSE IF msg.json = "bad_json" THEN fail(Result(FALSE, MSG_BAD_JSON, NoId))
        ELSE IF msg.json = "scalar"         \* `field not in data` raises
             THEN [ok |-> FALSE, text |-> <<>>, result |-> NoResult,
                   raised |-> "TypeError"]
        ELSE IF msg.json = "list"
             THEN fail(Result(FALSE, MSG_MISSING(RequiredFields), NoId))
        ELSE IF MissingFields(data) # <<>>
             THEN fail(Result(FALSE, MSG_MISSING(MissingFields(data)), NoId))
        ELSE IF ~Truthy(data.text) \/ Strip(PyStr(data.text)) = <<>>
             THEN fail(Result(FALSE, MSG_TEXT_EMPTY, NoId))
        ELSE IF ~IsList(data.topics) THEN fail(Result(FALSE, MSG_TOPICS_TYPE, NoId))
        ELSE IF ~IsList(data.key_facts)
             THEN fail(Result(FALSE, MSG_KEY_FACTS_TYPE, NoId))
        ELSE IF data.sentiment \notin Sentiments
             THEN fail(Result(FALSE, MSG_SENTIMENT, NoId))
        ELSE [ok |-> TRUE, text |-> Strip(PyStr(data.text)), result |-> NoResult,
              raised |-> ""]

\* lines 605-624
LmputMetadata(memory_text, data) ==
    Metadata(data.topics, data.key_facts, data.sentiment,
             IF data.canonical_summary = Absent
             THEN JStr(CanonicalSummary(memory_text, data.key_facts.items))
             ELSE data.canonical_summary,
             GetOr(data, "persona_summary", JStr(memory_text)))

NUMERIC_TEXT == Lit("0.4")

\* float(v): [raised, n]
PyFloat(v) ==
    CASE v.t = "num" -> [raised |-> "", n |-> v.n]
      [] v.t = "bool" -> [raised |-> "", n |-> v.n * ONE]
      [] v.t = "str" ->
            IF v.s = NUMERIC_TEXT THEN [raised |-> "", n |-> 4]
            ELSE [raised |-> "ValueError", n |-> 0]
      [] OTHER -> [raised |-> "TypeError", n |-> 0]

\* lines 635-636: [raised, n]
LmputImportanceOf(data, default) ==
    LET f == PyFloat(GetOr(data, "importance", JNum(default)))
    IN  [raised |-> f.raised, n |-> Clamp(f.n)]

(***************************************************************************)
(* The host's registry as one scan sees it (Context.get_registered_star,   *)
(* Context.get_all_stars) and _discover_memory_engine / _extract_engine    *)
(***************************************************************************)
\* a StarMetadata: star_cls is None (~inst) or an object of class cls whose
\* initializer is None (~init) or has memory_engine eng (None or an engine)
Star(i, c, n, e) == [inst |-> i, cls |-> c, init |-> n, eng |-> e]
NoStarCls == Star(FALSE, "", FALSE, None)
Stars ==
    {Star(TRUE, "LivingMemoryPlugin", FALSE, None)}
    \cup {Star(TRUE, "LivingMemoryPlugin", TRUE, e) : e \in EngineIds \cup {None}}
    \cup {Star(TRUE, "Other", TRUE, 1)}
Metas == {NoStarCls} \cup Stars

\* by_name: "none" (returns None), "raises", or "meta" (returns `named`);
\* all: what get_all_stars returns, unless all_raises.  Where the name
\* lookup already gives an instance the list is not read: short lists do.
View(b, m, r, l) == [by_name |-> b, named |-> m, all_raises |-> r, all |-> l]
StarLists == {<<>>} \cup {<<m>> : m \in Metas} \cup {<<m1, m2>> : m1, m2 \in Metas}
Views ==
    {View(b, NoStarCls, r, l) :
        b \in {"none", "raises", "meta"}, r \in BOOLEAN, l \in StarLists}
    \cup {View("meta", m, r, l) :
            m \in Stars, r \in BOOLEAN, l \in {<<>>} \cup {<<n>> : n \in Metas}}

LOG_NONE == "-"
LOG_LIST_EMPTY == "registered star list is empty"
LOG_NOT_FOUND == "LivingMemoryPlugin instance not found"
LOG_SCAN_ERROR == "error while discovering LivingMemory"
LOG_INIT_NONE == "found LivingMemoryPlugin but initializer is None"
LOG_ENGINE_UNINIT == "found LivingMemoryPlugin but memory_engine not yet initialized"
LOG_ENGINE_OK == "got the MemoryEngine of LivingMemory"

\* what one call of _discover_memory_engine does: the value returned, the
\* cache afterwards, the message logged, the registry calls made
Located(r, c, l, n, a) ==
    [ret |-> r, cache |-> c, log |-> l, lookups |-> n, enums |-> a]

\* an extraction that reports a missing engine as a missing plugin
ExtractEngine_SameLog(star, n, a) ==
    IF ~star.init THEN Located(None, None, LOG_INIT_NONE, n, a)
    ELSE IF star.eng = None THEN Located(None, None, LOG_NOT_FOUND, n, a)
    ELSE Located(star.eng, star.eng, LOG_ENGINE_OK, n, a)

\* lines 122-145
ExtractEngine(star, n, a) ==
    IF ~star.init THEN Located(None, None, LOG_INIT_NONE, n, a)
    ELSE IF star.eng = None THEN Located(None, None, LOG_ENGINE_UNINIT, n, a)
    ELSE Located(star.eng, star.eng, LOG_ENGINE_OK, n, a)

IsPlugin(m) == m.inst /\ m.cls = "LivingMemoryPlugin"

\* a locate whose enumeration takes the first instance of any class
DiscoverMemoryEngine_AnyClass(cached, view) ==
    IF cached # None THEN Located(cached, cached, LOG_NONE, 0, 0)
    ELSE IF view.by_name = "raises" THEN Located(None, None, LOG_SCAN_ERROR, 1, 0)
    ELSE IF view.by_name = "meta" /\ view.named.inst
         THEN ExtractEngine(view.named, 1, 0)
    ELSE IF view.all_raises THEN Located(None, None, LOG_SCAN_ERROR, 1, 1)
    ELSE IF view.all = <<>> THEN Located(None, None, LOG_LIST_EMPTY, 1, 1)
    ELSE IF \E k \in 1..Len(view.all) : view.all[k].inst
         THEN LET k == CHOOSE k \in 1..Len(view.all) :
                          /\ view.all[k].inst
                          /\ \A j \in 1..(k - 1) : ~view.all[j].inst
              IN  ExtractEngine(view.all[k], 1, 1)
    ELSE Located(None, None, LOG_NOT_FOUND, 1, 1)

\* a locate that scans the registry whether or not a handle is cached
DiscoverMemoryEngine_Rescan(cached, view) ==
    IF view.by_name = "raises" THEN Located(None, cached, LOG_SCAN_ERROR, 1, 0)
    ELSE IF view.by_name = "meta" /\ view.named.inst
         THEN ExtractEngine(view.named, 1, 0)
    ELSE IF view.all_raises THEN Located(None, cached, LOG_SCAN_ERROR, 1, 1)
    ELSE IF view.all = <<>> THEN Located(None, cached, LOG_LIST_EMPTY, 1, 1)
    ELSE IF \E k \in 1..Len(view.all) : IsPlugin(view.all[k])
         THEN LET k == CHOOSE k \in 1..Len(view.all) :
                          /\ IsPlugin(view.all[k])
                          /\ \A j \in 1..(k - 1) : ~IsPlugin(view.all[j])
              IN  ExtractEngine(view.all[k], 1, 1)
    ELSE Located(None, cached, LOG_NOT_FOUND, 1, 1)

\* lines 81-120
DiscoverMemoryEngine(cached, view) ==
    IF cached # None THEN Located(cached, cached, LOG_NONE, 0, 0)
    ELSE IF view.by_name = "raises" THEN Located(None, None, LOG_SCAN_ERROR, 1, 0)
    ELSE IF view.by_name = "meta" /\ view.named.inst
         THEN ExtractEngine(view.named, 1, 0)
    ELSE IF view.all_raises THEN Located(None, None, LOG_SCAN_ERROR, 1, 1)
    ELSE IF view.all = <<>> THEN Located(None, None, LOG_LIST_EMPTY, 1, 1)
    ELSE IF \E k \in 1..Len(view.all) : IsPlugin(view.all[k])
         THEN LET k == CHOOSE k \in 1..Len(view.all) :
                          /\ IsPlugin(view.all[k])
                          /\ \A j \in 1..(k - 1) : ~IsPlugin(view.all[j])
              IN  ExtractEngine(view.all[k], 1, 1)
    ELSE Located(None, None, LOG_NOT_FOUND, 1, 1)

(***************************************************************************)
(* _ensure_db_connection: the probe of lines 158-188                       *)
(***************************************************************************)
\* what the getattr chain meets: the first attribute that is None, an
\* exception, or document_storage itself ("resolved")
Chains ==
    {"hybrid_retriever", "vector_retriever", "faiss_db", "document_storage",
     "raises", "resolved"}

\* a probe that takes a chain it cannot follow for a lost connection
Probe_Pessimistic(chain, connected) ==
    IF chain = "resolved" /\ connected THEN "true" ELSE "initialize"

\* "true": return True; "initialize": engine is None, go on to line 193
Probe(chain, connected) ==
    IF chain # "resolved" THEN "true"
    ELSE IF connected THEN "true"
    ELSE "initialize"

\* a recovery that lets the write go on whatever initialize() left
AfterInitialize_AlwaysOk(raised, connected, cached) ==
    [ok |-> TRUE, cache |-> cached]

\* a recovery that reports the failure but keeps the cached handle
AfterInitialize_KeepCache(raised, connected, cached) ==
    IF raised THEN [ok |-> TRUE, cache |-> cached]
    ELSE IF connected THEN [ok |-> TRUE, cache |-> cached]
    ELSE [ok |-> FALSE, cache |-> cached]

\* lines 193-214, after initialize() ended: [ok, cache]
AfterInitialize(raised, connected, cached) ==
    IF raised THEN [ok |-> TRUE, cache |-> cached]            \* line 209
    ELSE IF connected THEN [ok |-> TRUE, cache |-> cached]    \* line 198
    ELSE [ok |-> FALSE, cache |-> None]                       \* lines 204-205

(***************************************************************************)
(* State                                                                   *)
(***************************************************************************)
VARIABLES
    cache,                \* self._memory_engine: None or an engine
    default_importance,   \* self._default_importance
    conn,                 \* conn[e]: engine e's DocumentStorage.engine is not None
    running,              \* the invocation that holds the event loop, or 0
    pc,                   \* pc[i]: where invocation i stands
    loc,                  \* loc[i]: its local variables
    obs,                  \* obs[i]: what it has done so far (history)
    invalidated,          \* history: the handle _ensure_db_connection last
                          \* dropped from the cache, None once a locate ran
    unavailable           \* history: the invocation that returned last failed
                          \* for want of the engine or of its connection,
                          \* FALSE once a locate ran

vars == <<cache, default_importance, conn, running, pc, loc, obs, invalidated,
          unavailable>>

\* add_memory(content, importance, metadata) as called; session_id and
\* persona_id are opaque and passed through unchanged
\* History: how add_memory ended
Added(raised, doc_id, err) == [raised |-> raised, doc_id |-> doc_id, err |-> err]
NotAdded == Added(FALSE, NoId, "")

AddArgs(h, c, imp, m) == [engine |-> h, content |-> c, importance |-> imp, metadata |-> m]
NoAdd == AddArgs(None, <<>>, 0, NoMeta)

(* History: what the registry held when the locate ran, whatever the scan  *)
(* made of it: "cached" (no scan was due), "error" (a registry call the    *)
(* scan needs raises), "not_found" (no instance by name, none of the class *)
(* in the list), "uninitialized" (the instance has no initializer or no    *)
(* memory_engine yet) or "initialized".                                    *)
Registered(cached, view) ==
    LET byName == view.by_name = "meta" /\ view.named.inst
        listed == {k \in 1..Len(view.all) : IsPlugin(view.all[k])}
        first == CHOOSE k \in listed : \A j \in listed : k <= j
        ready(m) == IF m.init /\ m.eng # None THEN "initialized" ELSE "uninitialized"
    IN  IF cached # None THEN "cached"
        ELSE IF view.by_name = "raises" THEN "error"
        ELSE IF byName THEN ready(view.named)
        ELSE IF view.all_raises THEN "error"
        ELSE IF listed = {} THEN "not_found"
        ELSE ready(view.all[first])

(* History: the initialized engines the registry would give at the time   *)
(* of a locate, by name (the instance registered as LivingMemory) or in    *)
(* the enumeration (the instances of class LivingMemoryPlugin); recorded   *)
(* when the locate finds the cache empty and reads the registry.           *)
Reachable(view) ==
    LET ready(m) == m.inst /\ m.init /\ m.eng # None
    IN  (IF view.by_name = "meta" /\ ready(view.named)
         THEN {view.named.eng} ELSE {})
        \cup (IF view.all_raises THEN {}
              ELSE {view.all[k].eng :
                      k \in {j \in 1..Len(view.all) :
                                IsPlugin(view.all[j]) /\ ready(view.all[j])}})

(* The analyzer's own frame: the answer of text_chat by its parts, held   *)
(* while _analyze_with_llm works on it and gone once insert_memory has    *)
(* taken the result.                                                      *)
Answer(outcome) ==
    [raised |-> outcome.raised, kind |-> outcome.text.kind,
     open |-> outcome.text.open, close |-> outcome.text.close,
     obj |-> outcome.text.obj]
NoChat == [raised |-> FALSE, kind |-> "-", open |-> "none", close |-> FALSE,
           obj |-> EmptyDict]

LocBlank ==
    [kind |-> "none", data |-> NoData, text |-> <<>>, importance |-> JNull,
     handle |-> None, response |-> NoChat, analyzed |-> EmptyDict,
     metadata |-> NoMeta,
     db_ok |-> FALSE, result |-> NoResult, raised |-> ""]

ObsBlank ==
    [arg_text |-> <<>>, arg_importance |-> JNull, arg_data |-> NoMessage,
     cache0 |-> None,
     lookups |-> 0, enums |-> 0, cache_reads |-> 0, log |-> LOG_NONE,
     steps |-> <<>>, found |-> "-", cached |-> None, reachable |-> {},
     after_invalidated |-> None, after_unavailable |-> FALSE,
     provider_calls |-> 0, terminated |-> FALSE,
     chain |-> "-",
     init_calls |-> 0, init |-> "-", cache_pre |-> None, unusable |-> None,
     add_calls |-> 0, add |-> NoAdd, added |-> NotAdded]

\* __init__ (lines 53-63), with the configured default_importance among
\* `defaults` and the engines' connections among `conns`
InitWith(defaults, conns) ==
    /\ cache = None
    /\ default_importance \in defaults
    /\ conn \in conns
    /\ running = 0
    /\ pc = [i \in Invs |-> "idle"]
    /\ loc = [i \in Invs |-> LocBlank]
    /\ obs = [i \in Invs |-> ObsBlank]
    /\ invalidated = None
    /\ unavailable = FALSE

\* invocation i ends with result r (still holding the loop until it returns)
Finish(i, r) ==
    /\ pc' = [pc EXCEPT ![i] = "ret"]
    /\ loc' = [loc EXCEPT ![i].result = r]

(***************************************************************************)
(* insert_memory                                                           *)
(***************************************************************************)
\* the call: insert_memory(text, session_id, persona_id, importance)
InsertCall(i, text, importance) ==
    /\ running = 0
    /\ pc[i] = "idle"
    /\ running' = i
    /\ pc' = [pc EXCEPT ![i] = "validate"]
    /\ loc' = [loc EXCEPT ![i] =
                 [LocBlank EXCEPT !.kind = "insert", !.text = text,
                                  !.importance = importance]]
    /\ obs' = [obs EXCEPT ![i] =
                 [ObsBlank EXCEPT !.arg_text = text,
                                  !.arg_importance = importance,
                                  !.cache0 = cache]]
    /\ UNCHANGED <<cache, default_importance, conn, invalidated, unavailable>>

\* lines 336-344
InsertValidate(i) ==
    /\ running = i
    /\ pc[i] = "validate"
    /\ LET v == ValidateText(loc[i].text)
       IN  IF v.ok
           THEN /\ pc' = [pc EXCEPT ![i] = "locate"]
                /\ loc' = [loc EXCEPT ![i].text = v.text]
           ELSE Finish(i, v.result)
    /\ obs' = [obs EXCEPT ![i].steps = Append(@, "validate")]
    /\ UNCHANGED <<cache, default_importance, conn, running, invalidated, unavailable>>

\* lines 347-355
InsertLocate(i, view) ==
    /\ running = i
    /\ pc[i] = "locate"
    /\ LET d == DiscoverMemoryEngine(cache, view)
       IN  /\ cache' = d.cache
           /\ obs' = [obs EXCEPT ![i].steps = Append(@, "locate"),
                                 ![i].cache_reads = @ + 1,
                                 ![i].lookups = @ + d.lookups,
                                 ![i].enums = @ + d.enums,
                                 ![i].log = d.log,
                                 ![i].found = Registered(cache, view),
                                 ![i].cached = cache,
                                 ![i].reachable =
                                     IF cache = None THEN Reachable(view) ELSE {},
                                 ![i].after_invalidated = invalidated,
                                 ![i].after_unavailable = unavailable]
           /\ invalidated' = None
           /\ unavailable' = FALSE
           /\ IF d.ret = None
              THEN Finish(i, Result(FALSE, MSG_NO_ENGINE, NoId))
              ELSE /\ pc' = [pc EXCEPT ![i] = "importance"]
                   /\ loc' = [loc EXCEPT ![i].handle = d.ret]
    /\ UNCHANGED <<default_importance, conn, running>>

\* lines 358-361
InsertImportance(i) ==
    /\ running = i
    /\ pc[i] = "importance"
    /\ pc' = [pc EXCEPT ![i] = "analyze"]
    /\ loc' = [loc EXCEPT ![i].importance =
                 JNum(NormalizeImportance(loc[i].importance, default_importance))]
    /\ obs' = [obs EXCEPT ![i].steps = Append(@, "importance")]
    /\ UNCHANGED <<cache, default_importance, conn, running, invalidated, unavailable>>

\* lines 249-263: provider is "none" (get_using_provider returns None),
\* "raises" (it raises) or "ok" (text_chat is awaited)
AnalyzeCall(i, provider) ==
    /\ running = i
    /\ pc[i] = "analyze"
    /\ IF provider = "ok"
       THEN /\ pc' = [pc EXCEPT ![i] = "await_chat"]
            /\ running' = 0
            /\ obs' = [obs EXCEPT ![i].steps = Append(@, "enrich"),
                                  ![i].provider_calls = @ + 1]
            /\ UNCHANGED loc
       ELSE /\ pc' = [pc EXCEPT ![i] = "build"]
            /\ loc' = [loc EXCEPT ![i].analyzed = EmptyDict]
            /\ obs' = [obs EXCEPT ![i].steps = Append(@, "enrich")]
            /\ UNCHANGED running
    /\ UNCHANGED <<cache, default_importance, conn, invalidated, unavailable>>

\* lines 265-305: text_chat answered (or raised)
AnalyzeReturn(i, outcome) ==
    /\ running = 0
    /\ pc[i] = "await_chat"
    /\ running' = i
    /\ pc' = [pc EXCEPT ![i] = "build"]
    /\ loc' = [loc EXCEPT ![i].response = Answer(outcome),
                          ![i].analyzed = AnalyzeCompletion(loc[i].text, outcome)]
    /\ UNCHANGED <<cache, default_importance, conn, obs, invalidated, unavailable>>

\* lines 366-382
InsertBuild(i) ==
    /\ running = i
    /\ pc[i] = "build"
    /\ pc' = [pc EXCEPT ![i] = "probe"]
    /\ loc' = [loc EXCEPT ![i].response = NoChat,
                          ![i].metadata = BuildMetadata(loc[i].text, loc[i].analyzed)]
    /\ UNCHANGED <<cache, default_importance, conn, running, obs, invalidated, unavailable>>

(***************************************************************************)
(* _ensure_db_connection and the write, shared by both entry points        *)
(***************************************************************************)
\* lines 158-193: the probe, up to return True or await initialize()
EnsureProbe(i, chain) ==
    /\ running = i
    /\ pc[i] = "probe"
    /\ IF Probe(chain, conn[loc[i].handle]) = "true"
       THEN /\ pc' = [pc EXCEPT ![i] = "checked"]
            /\ loc' = [loc EXCEPT ![i].db_ok = TRUE]
            /\ obs' = [obs EXCEPT ![i].steps = Append(@, "ensure"),
                                  ![i].chain = chain, ![i].cache_pre = cache]
            /\ UNCHANGED running
       ELSE /\ pc' = [pc EXCEPT ![i] = "await_init"]
            /\ running' = 0
            /\ obs' = [obs EXCEPT ![i].steps = Append(@, "ensure"),
                                  ![i].chain = chain, ![i].init_calls = @ + 1]
            /\ UNCHANGED loc
    /\ UNCHANGED <<cache, default_importance, conn, invalidated, unavailable>>

\* lines 193-214: initialize() ended (returned or raised), leaving the
\* connection present (connected) or still None
InitializeReturn(i, raised, connected) ==
    /\ running = 0
    /\ pc[i] = "await_init"
    /\ running' = i
    /\ conn' = [conn EXCEPT ![loc[i].handle] = connected]
    /\ LET a == AfterInitialize(raised, connected, cache)
       IN  /\ cache' = a.cache
           /\ loc' = [loc EXCEPT ![i].db_ok = a.ok]
           /\ invalidated' = IF a.ok THEN invalidated ELSE loc[i].handle
    /\ pc' = [pc EXCEPT ![i] = "checked"]
    /\ obs' = [obs EXCEPT
                 ![i].init = IF raised THEN "raised" ELSE "returned",
                 ![i].cache_pre = cache,
                 ![i].unusable = IF connected THEN None ELSE loc[i].handle]
    /\ UNCHANGED <<default_importance, unavailable>>

\* a write that does not look at what the connection check returned
Write_Unchecked(i) ==
    /\ running = i
    /\ pc[i] = "checked"
    /\ pc' = [pc EXCEPT ![i] = "await_add"]
    /\ running' = 0
    /\ obs' = [obs EXCEPT
                 ![i].steps = Append(@, "write"),
                 ![i].add_calls = @ + 1,
                 ![i].add = AddArgs(loc[i].handle, loc[i].text,
                                    loc[i].importance.n, loc[i].metadata)]
    /\ UNCHANGED <<cache, default_importance, conn, loc, invalidated, unavailable>>

\* lines 386-403 (638-654): give up, or call add_memory and await it
Write(i) ==
    /\ running = i
    /\ pc[i] = "checked"
    /\ IF ~loc[i].db_ok
       THEN /\ Finish(i, Result(FALSE, MSG_DB_FAIL, NoId))
            /\ UNCHANGED <<running, obs>>
       ELSE /\ pc' = [pc EXCEPT ![i] = "await_add"]
            /\ running' = 0
            /\ obs' = [obs EXCEPT
                         ![i].steps = Append(@, "write"),
                         ![i].add_calls = @ + 1,
                         ![i].add = AddArgs(loc[i].handle, loc[i].text,
                                            loc[i].importance.n, loc[i].metadata)]
            /\ UNCHANGED loc
    /\ UNCHANGED <<cache, default_importance, conn, invalidated, unavailable>>

\* line 656: ", ".join(data["topics"]) raises TypeError on an item that is
\* no string
JoinRaises(xs) == \E k \in 1..Len(xs) : xs[k].t # "str"

\* a reply that reports success whatever add_memory did
AddReturn_AlwaysOk(i, raised, doc_id, err) ==
    /\ running = 0
    /\ pc[i] = "await_add"
    /\ running' = i
    /\ Finish(i, Result(TRUE, MSG_OK, doc_id))
    /\ obs' = [obs EXCEPT ![i].added = Added(raised, doc_id, err)]
    /\ UNCHANGED <<cache, default_importance, conn, invalidated, unavailable>>

\* lines 405-421 (656-669): add_memory returned doc_id, or raised err; in
\* lmput_cmd the reply is built inside the try block of the call
AddReturn(i, raised, doc_id, err) ==
    /\ running = 0
    /\ pc[i] = "await_add"
    /\ running' = i
    /\ Finish(i, IF raised THEN Result(FALSE, MSG_ADD_FAILED(err), NoId)
                 ELSE IF loc[i].kind = "lmput" /\ JoinRaises(loc[i].data.topics.items)
                 THEN Result(FALSE, MSG_ADD_FAILED("TypeError"), NoId)
                 ELSE Result(TRUE, MSG_OK, doc_id))
    /\ obs' = [obs EXCEPT ![i].added = Added(raised, doc_id, err)]
    /\ UNCHANGED <<cache, default_importance, conn, invalidated, unavailable>>

\* the coroutine returns its result to the caller
Return(i) ==
    /\ running = i
    /\ pc[i] = "ret"
    /\ running' = 0
    /\ pc' = [pc EXCEPT ![i] = "done"]
    /\ unavailable' = ( /\ loc[i].raised = ""
                        /\ loc[i].result.message \in {MSG_NO_ENGINE, MSG_DB_FAIL} )
    /\ UNCHANGED <<cache, default_importance, conn, loc, obs, invalidated>>

\* the caller is done with the result
Reset(i) ==
    /\ running = 0
    /\ pc[i] = "done"
    /\ pc' = [pc EXCEPT ![i] = "idle"]
    /\ loc' = [loc EXCEPT ![i] = LocBlank]
    /\ obs' = [obs EXCEPT ![i] = ObsBlank]
    /\ UNCHANGED <<cache, default_importance, conn, running, invalidated, unavailable>>

(***************************************************************************)
(* The rest of the process, between the plugin's awaits                    *)
(***************************************************************************)
\* lines 675-679
\* History: terminate() ran while the invocation was suspended between its
\* locate and its write, with the located handle in its local variable
Terminate ==
    /\ running = 0
    /\ cache' = None
    /\ obs' = [i \in Invs |->
                 IF pc[i] \in {"await_chat", "await_init"}
                 THEN [obs[i] EXCEPT !.terminated = TRUE]
                 ELSE obs[i]]
    /\ UNCHANGED <<default_importance, conn, running, pc, loc, invalidated, unavailable>>

\* LivingMemory releases (hot reload, error recovery) or reopens the SQLite
\* connection of engine e
ConnectionChange(e) ==
    /\ running = 0
    /\ conn' = [conn EXCEPT ![e] = ~conn[e]]
    /\ UNCHANGED <<cache, default_importance, running, pc, loc, obs, invalidated, unavailable>>

(***************************************************************************)
(* lmput_cmd                                                               *)
(***************************************************************************)
\* the command arrives with its message
LmputCall(i, msg) ==
    /\ running = 0
    /\ pc[i] = "idle"
    /\ running' = i
    /\ pc' = [pc EXCEPT ![i] = "parse"]
    /\ loc' = [loc EXCEPT ![i] = [LocBlank EXCEPT !.kind = "lmput"]]
    /\ obs' = [obs EXCEPT ![i] =
                 [ObsBlank EXCEPT !.arg_data = msg, !.cache0 = cache]]
    /\ UNCHANGED <<cache, default_importance, conn, invalidated, unavailable>>

\* an exception leaves the handler
Raise(i, err) ==
    /\ pc' = [pc EXCEPT ![i] = "ret"]
    /\ loc' = [loc EXCEPT ![i].raised = err]

\* lines 535-599: parse and validate, then await _get_persona_id
LmputParse(i) ==
    /\ running = i
    /\ pc[i] = "parse"
    /\ LET v == ParseMessage(obs[i].arg_data)
       IN  IF v.ok
           THEN /\ pc' = [pc EXCEPT ![i] = "await_persona"]
                /\ loc' = [loc EXCEPT ![i].text = v.text,
                                      ![i].data = obs[i].arg_data.data]
                /\ running' = 0
           ELSE /\ IF v.raised # "" THEN Raise(i, v.raised) ELSE Finish(i, v.result)
                /\ UNCHANGED running
    /\ UNCHANGED <<cache, default_importance, conn, obs, invalidated, unavailable>>

\* lines 599-601: _get_persona_id ended (it never raises); the handler
\* yields its progress message and is suspended again
LmputYield(i) ==
    /\ running = 0
    /\ pc[i] = "await_persona"
    /\ pc' = [pc EXCEPT ![i] = "yielded"]
    /\ UNCHANGED <<cache, default_importance, conn, running, loc, obs, invalidated, unavailable>>

\* lines 603-624: the host resumes the handler; it builds the metadata
LmputBuild(i) ==
    /\ running = 0
    /\ pc[i] = "yielded"
    /\ running' = i
    /\ pc' = [pc EXCEPT ![i] = "lmput_locate"]
    /\ loc' = [loc EXCEPT ![i].metadata = LmputMetadata(loc[i].text, loc[i].data)]
    /\ UNCHANGED <<cache, default_importance, conn, obs, invalidated, unavailable>>

\* lines 627-636: locate, then the importance
LmputLocate(i, view) ==
    /\ running = i
    /\ pc[i] = "lmput_locate"
    /\ LET d == DiscoverMemoryEngine(cache, view)
           m == LmputImportanceOf(loc[i].data, default_importance)
       IN  /\ cache' = d.cache
           /\ obs' = [obs EXCEPT ![i].steps = Append(@, "locate"),
                                 ![i].cache_reads = @ + 1,
                                 ![i].lookups = @ + d.lookups,
                                 ![i].enums = @ + d.enums,
                                 ![i].log = d.log,
                                 ![i].found = Registered(cache, view),
                                 ![i].cached = cache,
                                 ![i].reachable =
                                     IF cache = None THEN Reachable(view) ELSE {},
                                 ![i].after_invalidated = invalidated,
                                 ![i].after_unavailable = unavailable]
           /\ invalidated' = None
           /\ unavailable' = FALSE
           /\ IF d.ret = None
              THEN Finish(i, Result(FALSE, MSG_NO_ENGINE, NoId))
              ELSE IF m.raised # ""
              THEN /\ pc' = [pc EXCEPT ![i] = "ret"]
                   /\ loc' = [loc EXCEPT ![i].handle = d.ret, ![i].raised = m.raised]
              ELSE /\ pc' = [pc EXCEPT ![i] = "probe"]
                   /\ loc' = [loc EXCEPT ![i].handle = d.ret,
                                         ![i].importance = JNum(m.n)]
    /\ UNCHANGED <<default_importance, conn, running>>

(***************************************************************************)
(* Inputs                                                                  *)
(***************************************************************************)
T_C == Lit("C")
T_MAX == Rep("a", MAX_TEXT_LEN)
T_OVER == Rep("a", MAX_TEXT_LEN + 1)
Pad(s) == Lit(" ") \o s \o Lit("\n")

F(k) == JStr(Lit("f") \o Rep("x", k))
TwoFacts == JList(<<F(1), F(2)>>)
SixFacts == JList(<<F(1), F(2), F(3), F(4), F(5), F(6)>>)
OneTopic == JList(<<JStr(Lit("t"))>>)

DocIds == {41, 42}
Errors == {"AssertionError"}

\* what the callers and the collaborators may hand in
Inputs(ca, ob, fe, ms, vw, ch) ==
    [calls |-> ca, objects |-> ob, fences |-> fe, messages |-> ms,
     views |-> vw, chains |-> ch]

Completions(in) ==
    {Completion(w, o, c, "object", d) :
        w \in BOOLEAN, o \in in.fences, c \in BOOLEAN, d \in in.objects}
    \cup {Completion(w, o, c, k, EmptyDict) :
        w \in BOOLEAN, o \in in.fences, c \in BOOLEAN,
        k \in {"empty", "garbage", "truncated", "value"}}

ChatOutcomes(in) ==
    {[raised |-> TRUE, text |-> Completion(FALSE, "none", FALSE, "empty", EmptyDict)]}
    \cup {[raised |-> FALSE, text |-> r] : r \in Completions(in)}

\* no other invocation is under way, and i is the first that is free
Quiet(i) ==
    /\ \A j \in Invs \ {i} : pc[j] = "idle"
    /\ \A j \in Invs : j < i => pc[j] # "idle"

\* the steps of invocation i after its call, on the inputs `in` (a step
\* that draws from a large set is only tried where the invocation stands
\* at it)
Steps(in, i) ==
        \/ InsertValidate(i)
        \/ /\ pc[i] = "locate"
           /\ \E view \in in.views : InsertLocate(i, view)
        \/ InsertImportance(i)
        \/ \E provider \in {"none", "raises", "ok"} : AnalyzeCall(i, provider)
        \/ /\ pc[i] = "await_chat"
           /\ \E outcome \in ChatOutcomes(in) : AnalyzeReturn(i, outcome)
        \/ InsertBuild(i)
        \/ LmputParse(i)
        \/ LmputYield(i)
        \/ LmputBuild(i)
        \/ /\ pc[i] = "lmput_locate"
           /\ \E view \in in.views : LmputLocate(i, view)
        \/ \E chain \in in.chains : EnsureProbe(i, chain)
        \/ \E raised, connected \in BOOLEAN : InitializeReturn(i, raised, connected)
        \/ Write(i)
        \/ \E doc_id \in DocIds : AddReturn(i, FALSE, doc_id, "")
        \/ \E err \in Errors : AddReturn(i, TRUE, NoId, err)
        \/ Return(i)

\* the invocations one at a time: a call waits until the one before it is
\* over
Invocations(in) ==
    \E i \in Invs :
        \/ /\ Quiet(i)
           /\ \E call \in in.calls : InsertCall(i, call[1], call[2])
        \/ /\ Quiet(i)
           /\ \E msg \in in.messages : LmputCall(i, msg)
        \/ Steps(in, i)
        \/ Reset(i)

\* the free-text insertion of the concurrent runs
Tool == CHOOSE i \in Invs : \A j \in Invs : i <= j

(* concurrent invocations: a call may come whenever the event loop is free. *)
(* The tool is called once and every other slot takes /lmput commands, one  *)
(* after the other, so that a command may come and go while the tool waits  *)
(* for the provider.                                                        *)
Concurrent(in) ==
    \/ \E call \in in.calls : InsertCall(Tool, call[1], call[2])
    \/ \E i \in Invs \ {Tool} :
           \/ /\ pc[Tool] = "await_chat"
              /\ \E msg \in in.messages : LmputCall(i, msg)
           \/ Reset(i)
    \/ \E i \in Invs : Steps(in, i)

(* Spec: every registry view, probe outcome and connection change, on few  *)
(* texts.                                                                  *)
BaseData == Data(JStr(T_C), OneTopic, TwoFacts, NEUTRAL, Absent, Absent, Absent)

FewInputs ==
    Inputs({<<<<>>, JNull>>, <<Pad(T_C), JNull>>},
           {Dict3(OneTopic, TwoFacts, POSITIVE)}, {"json"},
           {Message(TRUE, "object", BaseData), Message(FALSE, "object", NoData)},
           Views, Chains)

Init == InitWith({DEFAULT_IMPORTANCE}, [EngineIds -> BOOLEAN])

Next ==
    \/ Invocations(FewInputs)
    \/ Terminate
    \/ \E e \in EngineIds : ConnectionChange(e)

Spec == Init /\ [][Next]_vars

(* SpecData: every text, importance, completion and message, on a registry *)
(* that holds the plugin or does not.                                      *)
Texts ==
    {<<>>, Rep(" ", 2), Pad(<<>>), T_C, Pad(T_C), T_MAX, Pad(T_MAX),
     T_OVER, Pad(T_OVER)}

Importances == {JNull, JNum(-5), JNum(4), JNum(15)}

TopicValues == {Absent, OneTopic, JList(<<>>), JStr(Lit("t"))}
KeyFactValues == {Absent, TwoFacts, SixFacts, JList(<<>>), JNull}
SentimentValues == {Absent, POSITIVE, NEUTRAL, JStr(Lit("happy")), JNull}

\* insert_memory(text, importance): every text, and every importance
Calls ==
    {<<text, JNull>> : text \in Texts}
    \cup {<<T_C, importance>> : importance \in Importances}

\* the JSON objects of the completions: the fields vary in groups
Objects ==
    {Dict3(tp, TwoFacts, se) : tp \in TopicValues, se \in SentimentValues}
    \cup {Dict3(tp, kf, NEUTRAL) : tp \in {Absent, JList(<<>>)}, kf \in KeyFactValues}
    \cup {Dict3(OneTopic, kf, se) : kf \in KeyFactValues, se \in {Absent, POSITIVE}}

TextValues ==
    {Absent, JNull, JTrue, JStr(<<>>), JStr(Pad(<<>>)), JStr(T_C), JStr(Pad(T_C)),
     JStr(T_MAX), JStr(Pad(T_OVER))}
ImportanceValues ==
    {Absent, JNull, JNum(-5), JNum(4), JNum(15), JTrue, JStr(NUMERIC_TEXT),
     JStr(Lit("high"))}
SummaryValues == {Absent, JStr(Lit("S")), JNull}

\* the objects of the messages: the fields vary in groups around BaseData
DataValues ==
    {[BaseData EXCEPT !.text = tx, !.key_facts = kf] :
        tx \in TextValues, kf \in KeyFactValues \cup {JList(<<JNull, F(1)>>)}}
    \cup {[BaseData EXCEPT !.topics = tp, !.sentiment = se] :
        tp \in TopicValues, se \in SentimentValues}
    \cup {[BaseData EXCEPT !.topics = JList(<<JNum(1)>>)]}
    \cup {[BaseData EXCEPT !.importance = im] : im \in ImportanceValues}
    \cup {[BaseData EXCEPT !.canonical_summary = cs, !.persona_summary = ps,
                           !.key_facts = kf] :
        cs \in SummaryValues, ps \in SummaryValues, kf \in {TwoFacts, SixFacts}}

Messages ==
    {Message(TRUE, "object", d) : d \in DataValues}
    \cup {Message(FALSE, "object", NoData)}
    \cup {Message(TRUE, j, NoData) : j \in {"bad_json", "scalar", "list"}}

PluginViews ==
    {View("meta", Star(TRUE, "LivingMemoryPlugin", TRUE, 1), FALSE, <<>>),
     View("none", NoStarCls, FALSE, <<Star(TRUE, "Other", TRUE, None)>>)}

AllInputs ==
    Inputs(Calls, Objects, {"none", "bare", "json", "py"},
           Messages, PluginViews, {"resolved", "faiss_db"})

InitData ==
    InitWith({DEFAULT_IMPORTANCE, 12},
             {[e \in EngineIds |-> TRUE], [e \in EngineIds |-> FALSE]})

NextData == Invocations(AllInputs)

SpecData == InitData /\ [][NextData]_vars

(* SpecConc: concurrent invocations of both kinds on one text, with a      *)
(* registry that gives engine 1, engine 2 (LivingMemory was reloaded) or   *)
(* nothing, a provider that fails, connections that are lost at the start  *)
(* and that initialize() may restore, and terminate() between the awaits.  *)
ReloadViews ==
    {View("meta", Star(TRUE, "LivingMemoryPlugin", TRUE, e), FALSE, <<>>) :
        e \in EngineIds}
    \cup {View("none", NoStarCls, FALSE, <<>>)}

ConcInputs ==
    Inputs({<<T_C, JNull>>}, {}, {},
           {Message(TRUE, "object", BaseData)}, ReloadViews, {"resolved"})

InitConc == InitWith({DEFAULT_IMPORTANCE}, {[e \in EngineIds |-> FALSE]})

NextConc ==
    \/ Concurrent(ConcInputs)
    \/ Terminate

SpecConc == InitConc /\ [][NextConc]_vars

(***************************************************************************)
(* Properties                                                              *)
(***************************************************************************)

(* C1: for every input text whose trimmed length is 0 (empty or            *)
(* whitespace-only), insert_memory fails with the empty-text message and   *)
(* has made no registry lookup, no enumeration, no cache read, no provider *)
(* call and no add_memory call; the cache is what it was at the call.      *)
C1_EmptyTextRejected ==
    \A i \in Invs :
        ( /\ loc[i].kind = "insert"
          /\ pc[i] \notin {"idle", "validate"}
          /\ StrLen(Strip(obs[i].arg_text)) = 0 )
        => /\ pc[i] \in {"ret", "done"}
           /\ loc[i].result = Result(FALSE, MSG_EMPTY, NoId)
           /\ obs[i].lookups = 0 /\ obs[i].enums = 0 /\ obs[i].cache_reads = 0
           /\ obs[i].provider_calls = 0 /\ obs[i].add_calls = 0
           /\ cache = obs[i].cache0

\* a whitespace-only text was rejected while the cache held a handle
C1_Witness ==
    \E i \in Invs :
        /\ loc[i].kind = "insert" /\ pc[i] = "ret"
        /\ obs[i].arg_text # <<>> /\ Strip(obs[i].arg_text) = <<>>
        /\ loc[i].result = Result(FALSE, MSG_EMPTY, NoId)
        /\ cache # None

(* C2: for every input text whose trimmed length exceeds 4096,             *)
(* insert_memory fails, the length named in the message is the trimmed     *)
(* length, and no add_memory call is made.                                 *)
C2_TooLongRejected ==
    \A i \in Invs :
        ( /\ loc[i].kind = "insert"
          /\ pc[i] \notin {"idle", "validate"}
          /\ StrLen(Strip(obs[i].arg_text)) > 4096 )
        => /\ pc[i] \in {"ret", "done"}
           /\ ~loc[i].result.success
           /\ loc[i].result.message = MSG_TOO_LONG(StrLen(Strip(obs[i].arg_text)))
           /\ obs[i].add_calls = 0

\* an over-long text with whitespace around it was rejected
C2_Witness ==
    \E i \in Invs :
        /\ loc[i].kind = "insert" /\ pc[i] = "ret"
        /\ StrLen(Strip(obs[i].arg_text)) > 4096
        /\ StrLen(obs[i].arg_text) > StrLen(Strip(obs[i].arg_text))
        /\ loc[i].result.message.len = 4097

(* C3: in every add_memory call of either entry point the content is       *)
(* trimmed and has between 1 and 4096 characters.  lmput_cmd trims its     *)
(* text and rejects the empty one but never tests the length, so this is   *)
(* violated.                                                               *)
C3_ContentBounded ==
    \A i \in Invs :
        obs[i].add_calls > 0
        => /\ obs[i].add.content = Strip(obs[i].add.content)
           /\ StrLen(obs[i].add.content) >= 1
           /\ StrLen(obs[i].add.content) <= 4096

(* C4: the importance passed to add_memory by either entry point is        *)
(* max(0, min(1, value or default)), the default being the configured      *)
(* default_importance: it lies in [0, 1], and normalizing it again changes *)
(* nothing.  (Tenths: 10 is 1.0.)                                          *)
C4_ImportanceClamped ==
    \A i \in Invs :
        obs[i].add_calls > 0
        => LET given == IF loc[i].kind = "insert" THEN obs[i].arg_importance
                        ELSE obs[i].arg_data.data.importance
               value == IF given.t = "num" THEN given.n ELSE default_importance
               stored == obs[i].add.importance
               clamp(x) == IF x < 0 THEN 0 ELSE IF x > 10 THEN 10 ELSE x
           IN  /\ stored >= 0 /\ stored <= 10
               /\ clamp(stored) = stored
               /\ given.t \in {"num", "null", "absent"} => stored = clamp(value)

\* importances below 0 and above 1 reached add_memory clamped
C4_Witness ==
    \E i \in Invs :
        /\ obs[i].add_calls > 0
        /\ \/ /\ loc[i].kind = "lmput"
              /\ obs[i].arg_data.data.importance = JNum(-5)
              /\ obs[i].add.importance = 0
           \/ /\ loc[i].kind = "insert"
              /\ obs[i].arg_importance = JNum(-5)
              /\ obs[i].add.importance = 0

C6_MetadataNonEmpty ==
    \A i \in Invs :
        obs[i].add_calls > 0
        => LET m == obs[i].add.metadata
           IN  /\ IsList(m.topics) /\ m.topics.items # <<>>
               /\ IsList(m.key_facts) /\ m.key_facts.items # <<>>
               /\ m.sentiment \in {POSITIVE, NEGATIVE, NEUTRAL}

(* C7: unless overridden, the canonical_summary written to the engine is   *)
(* the content, then " | ", then the first five key facts joined with the  *)
(* fullwidth semicolon, in both entry points.  With the empty key_facts of *)
(* C6 the code writes the content alone, so this is violated.              *)
C7_CanonicalSummary ==
    \A i \in Invs :
        ( /\ obs[i].add_calls > 0
          /\ loc[i].kind = "lmput" => obs[i].arg_data.data.canonical_summary = Absent )
        => LET m == obs[i].add.metadata
               facts == m.key_facts.items
               five == [k \in 1..Min(5, Len(facts)) |-> PyStr(facts[k])]
           IN  m.canonical_summary =
                   JStr(obs[i].add.content \o Lit(" ") \o Lit("|") \o Lit(" ")
                        \o Join(Lit("U+FF1B"), five))

C10_StaleHandleDropped ==
    \A i \in Invs :
        ( pc[i] = "ret" /\ obs[i].unusable # None )
        => cache # obs[i].unusable

(* C11: failures for want of the engine are not sticky.  A lookup that     *)
(* failed leaves no cached result, and the insertion that follows such a   *)
(* failure, once the registry gives an initialized engine (by name or in   *)
(* the enumeration), locates that engine and goes on.  The scan does not   *)
(* reach every engine the registry gives (C16), so this is violated.       *)
C11_NotSticky ==
    \A i \in Invs :
        /\ ( /\ pc[i] \in {"ret", "done"} /\ loc[i].raised = ""
             /\ loc[i].result.message \in {MSG_NO_ENGINE, MSG_DB_FAIL} )
           => cache = None
        /\ ( /\ obs[i].cache_reads = 1
             /\ obs[i].after_unavailable
             /\ obs[i].reachable # {} )
           => /\ obs[i].lookups = 1
              /\ loc[i].handle \in obs[i].reachable
              /\ loc[i].result.message # MSG_NO_ENGINE

(* C12: each insertion calls add_memory at most once.  When the call       *)
(* raises, the insertion reports a failure that carries the error text;    *)
(* when it returns, the insertion reports success with the identifier the  *)
(* engine returned.  lmput_cmd builds its reply inside the try block: a    *)
(* topic that is no string makes the join raise after the write, and the   *)
(* reply is a failure, so this is violated.                                *)
C12_SingleWrite ==
    \A i \in Invs :
        /\ obs[i].add_calls <= 1
        /\ ( pc[i] \in {"ret", "done"} /\ obs[i].add_calls = 1 )
           => IF obs[i].added.raised
              THEN loc[i].result = Result(FALSE, MSG_ADD_FAILED(obs[i].added.err), NoId)
              ELSE loc[i].result = Result(TRUE, MSG_OK, obs[i].added.doc_id)

(* C13: enrichment never fails the insertion.  Whatever the provider does  *)
(* (none configured, an exception, an empty completion, malformed JSON,    *)
(* JSON that is no object) the analysis is the empty mapping and raises    *)
(* nothing; insert_memory goes on to the connection check and, when that   *)
(* returns True, to the write; in the metadata every field the analysis    *)
(* did not supply is its default: [the first 50 characters of the text],   *)
(* [the text], neutral.                                                    *)
C13_BestEffort ==
    \A i \in Invs :
        loc[i].kind = "insert"
        => LET r == loc[i].response
               a == loc[i].analyzed
               m == loc[i].metadata
               text == loc[i].text
           IN  /\ loc[i].raised = ""
               /\ ( /\ pc[i] = "build"
                    /\ \/ obs[i].provider_calls = 0
                       \/ r.raised
                       \/ r.kind \in {"empty", "garbage", "truncated", "value"} )
                  => a = EmptyDict
               /\ pc[i] \in {"probe", "await_init", "checked", "await_add"}
                  => /\ m.topics = IF a.topics = Absent
                                   THEN JList(<<JStr(Take(text, 50))>>)
                                   ELSE a.topics
                     /\ m.key_facts = IF a.key_facts = Absent
                                      THEN JList(<<JStr(text)>>)
                                      ELSE a.key_facts
                     /\ m.sentiment = IF a.sentiment = Absent
                                      THEN NEUTRAL ELSE a.sentiment
               /\ ( pc[i] \in {"ret", "done"} /\ loc[i].handle # None )
                  => /\ obs[i].chain # "-"
                     /\ loc[i].db_ok => obs[i].add_calls = 1

\* the provider was asked, the analysis came back empty, and add_memory was
\* called with the defaults for a text of more than 50 characters
C13_Witness ==
    \E i \in Invs :
        /\ loc[i].kind = "insert" /\ pc[i] = "await_add"
        /\ obs[i].provider_calls = 1
        /\ loc[i].analyzed = EmptyDict
        /\ StrLen(loc[i].text) > 50
        /\ obs[i].add.metadata.topics = JList(<<JStr(Take(loc[i].text, 50))>>)
        /\ obs[i].add.metadata.key_facts = JList(<<JStr(loc[i].text)>>)
        /\ obs[i].add.metadata.sentiment = NEUTRAL

(* C14: lmput_cmd never calls the provider, and a request that lacks text, *)
(* topics, key_facts or sentiment, whose topics or key_facts is no         *)
(* sequence, whose sentiment is none of the three values, whose importance *)
(* is not numeric, or whose JSON value is no object, is rejected with a    *)
(* message, with no engine lookup and no add_memory call, and without an   *)
(* exception.  The importance is converted after the locate, outside any   *)
(* try block, and a JSON number is tested with `in`: both raise, so this   *)
(* is violated.                                                            *)
C14_HardValidation ==
    \A i \in Invs :
        loc[i].kind = "lmput"
        => LET msg == obs[i].arg_data
               d == msg.data
               invalid ==
                   /\ msg.match
                   /\ \/ msg.json \in {"scalar", "list"}
                      \/ /\ msg.json = "object"
                         /\ \/ Absent \in {d.text, d.topics, d.key_facts, d.sentiment}
                            \/ d.topics.t # "list"
                            \/ d.key_facts.t # "list"
                            \/ d.sentiment \notin {POSITIVE, NEGATIVE, NEUTRAL}
                            \/ d.importance \in {JNull, JStr(Lit("high"))}
           IN  /\ obs[i].provider_calls = 0
               /\ ( pc[i] \in {"ret", "done"} /\ invalid )
                  => /\ loc[i].raised = ""
                     /\ ~loc[i].result.success
                     /\ loc[i].result.message.id # ""
                     /\ obs[i].lookups = 0 /\ obs[i].cache_reads = 0
                     /\ obs[i].add_calls = 0
               /\ invalid => obs[i].cache_reads = 0 /\ obs[i].add_calls = 0

(* C15: when a handle is cached, a locate returns that handle, makes       *)
(* neither the name lookup nor the enumeration and leaves the cache as it  *)
(* is; and the cache takes a new handle only in a locate whose scan met an *)
(* instance with its initializer and its memory_engine, that engine being  *)
(* the handle.                                                             *)
C15_CachedLocate ==
    [][ /\ \A i \in Invs :
              ( /\ obs[i].cache_reads = 0 /\ obs'[i].cache_reads = 1
                /\ cache # None )
              => /\ loc'[i].handle = cache
                 /\ cache' = cache
                 /\ obs'[i].lookups = 0 /\ obs'[i].enums = 0
        /\ ( cache' # cache /\ cache' # None )
           => \E i \in Invs :
                 /\ obs[i].cache_reads = 0 /\ obs'[i].cache_reads = 1
                 /\ obs'[i].found = "initialized"
                 /\ obs'[i].lookups = 1
                 /\ loc'[i].handle = cache'
                 /\ cache' \in obs'[i].reachable
      ]_vars

\* a locate returned the cached handle while the registry gave none
C15_Witness ==
    \E i \in Invs :
        /\ obs[i].cache_reads = 1
        /\ obs[i].cached # None
        /\ loc[i].handle = obs[i].cached
        /\ cache = obs[i].cached
        /\ obs[i].lookups = 0
        /\ obs[i].reachable = {}

(* C16: with an empty cache a locate tries the name lookup first and, when *)
(* that gives no instance or fails, goes through the enumeration; whenever *)
(* the registry gives an initialized engine, by name or in the             *)
(* enumeration, the locate returns it and caches it.  A name lookup that   *)
(* raises ends the scan (the except clause returns None), so this is       *)
(* violated.                                                               *)
C16_BothAddressingStyles ==
    \A i \in Invs :
        ( obs[i].cache_reads = 1 /\ obs[i].cached = None )
        => /\ obs[i].lookups = 1
           /\ obs[i].reachable # {}
              => /\ loc[i].handle \in obs[i].reachable
                 /\ pc[i] = "importance" => cache = loc[i].handle

(* C17: every lookup failure is soft.  Whatever the registry does (an      *)
(* empty list, no matching instance, an instance without initializer or    *)
(* without memory_engine, an exception during the scan) the locate returns *)
(* None, logs the reason, raises nothing and leaves the cache None; the    *)
(* insertion ends with the cannot-get-MemoryEngine failure.                *)
C17_SoftLookupFailures ==
    \A i \in Invs :
        ( /\ obs[i].cache_reads = 1
          /\ obs[i].found \in {"not_found", "uninitialized", "error"} )
        => /\ loc[i].handle = None
           /\ loc[i].raised = ""
           /\ obs[i].log \notin {LOG_NONE, LOG_ENGINE_OK}
           /\ pc[i] \in {"ret", "done"}
           /\ loc[i].result = Result(FALSE, MSG_NO_ENGINE, NoId)
           /\ cache = None

\* the registry raised during a scan and the insertion ended softly
C17_Witness ==
    \E i \in Invs :
        /\ pc[i] = "ret"
        /\ obs[i].found = "error"
        /\ obs[i].log = LOG_SCAN_ERROR
        /\ obs[i].reachable # {}
        /\ loc[i].result = Result(FALSE, MSG_NO_ENGINE, NoId)
        /\ cache = None

(* C18: _ensure_db_connection is optimistic.  When an attribute of the     *)
(* probe chain is None or the probe raises, it returns True without        *)
(* calling initialize() and leaves the cache as it is; when initialize()   *)
(* raises, it returns True, makes no further attempt and leaves the cache  *)
(* as it is.  It returns False only when the chain resolved, the           *)
(* connection was None, and it is still None after the one initialize().   *)
C18_OptimisticEnsure ==
    \A i \in Invs :
        /\ obs[i].init_calls <= 1
        /\ ( obs[i].chain \notin {"-", "resolved"} )
           => /\ obs[i].init_calls = 0 /\ obs[i].init = "-"
              /\ pc[i] \notin {"probe", "await_init"}
              /\ pc[i] = "checked" => loc[i].db_ok /\ cache = obs[i].cache_pre
        /\ obs[i].init = "raised"
           => /\ obs[i].init_calls = 1
              /\ pc[i] = "checked" => loc[i].db_ok /\ cache = obs[i].cache_pre
        /\ ( pc[i] = "checked" /\ ~loc[i].db_ok )
           => /\ obs[i].chain = "resolved"
              /\ obs[i].init = "returned"
              /\ obs[i].init_calls = 1
              /\ ~conn[loc[i].handle]

\* initialize() raised with the connection still None, and the check
\* returned True with the handle still cached
C18_Witness ==
    \E i \in Invs :
        /\ pc[i] = "checked"
        /\ obs[i].init = "raised"
        /\ ~conn[loc[i].handle]
        /\ loc[i].db_ok
        /\ cache = loc[i].handle

(* C19: insert_memory takes its steps in the order validate, locate,       *)
(* normalize importance, enrich, ensure connection, write, and an early    *)
(* exit keeps every later step from acting: no locate and no provider call *)
(* after a failed validation, no provider call and no connection check     *)
(* when the locate returned None, no add_memory call when the validation   *)
(* failed, the locate returned None or the connection check returned       *)
(* False; add_memory is only called after the connection check of the same *)
(* invocation returned True.                                               *)
C19_StepOrder ==
    LET Order == <<"validate", "locate", "importance", "enrich", "ensure", "write">>
    IN  \A i \in Invs :
            loc[i].kind = "insert"
            => LET n == Len(obs[i].steps)
                   ended == pc[i] \in {"ret", "done"}
               IN  /\ n <= Len(Order) /\ obs[i].steps = SubSeq(Order, 1, n)
                   /\ ( ended /\ loc[i].result.message.id
                                   \in {MSG_EMPTY.id, MSG_TOO_LONG(0).id} )
                      => /\ n = 1
                         /\ obs[i].cache_reads = 0 /\ obs[i].provider_calls = 0
                         /\ obs[i].add_calls = 0
                   /\ ( obs[i].cache_reads = 1 /\ loc[i].handle = None )
                      => /\ ended /\ n = 2
                         /\ obs[i].provider_calls = 0 /\ obs[i].chain = "-"
                         /\ obs[i].add_calls = 0
                   /\ obs[i].provider_calls > 0
                      => obs[i].cache_reads = 1 /\ loc[i].handle # None
                   /\ ( ended /\ obs[i].chain # "-" /\ ~loc[i].db_ok )
                      => n = 5 /\ obs[i].add_calls = 0
                   /\ obs[i].add_calls > 0
                      => /\ obs[i].steps = Order
                         /\ obs[i].chain # "-" /\ loc[i].db_ok
                         /\ loc[i].handle # None

\* the connection check returned False and the insertion ended without a
\* write, after the provider had been asked
C19_Witness ==
    \E i \in Invs :
        /\ loc[i].kind = "insert" /\ pc[i] = "ret"
        /\ obs[i].steps = <<"validate", "locate", "importance", "enrich", "ensure">>
        /\ obs[i].provider_calls = 1
        /\ ~loc[i].db_ok
        /\ loc[i].result = Result(FALSE, MSG_DB_FAIL, NoId)
        /\ obs[i].add_calls = 0

(* C20: under any interleaving of concurrent invocations and registry      *)
(* changes, the cache an invocation observes between its locate and its    *)
(* write is the handle it located or None, never another handle.  After    *)
(* the cache was cleared, the locate of another invocation caches whatever *)
(* the registry gives then, so this is violated.                           *)
C20_CacheOnlyNarrows ==
    \A i \in Invs :
        ( /\ loc[i].handle # None
          /\ pc[i] \in {"importance", "analyze", "await_chat", "build", "probe",
                        "await_init", "checked"} )
        => cache \in {loc[i].handle, None}

C22_NoWriteAfterTerminate ==
    \A i \in Invs :
        obs[i].terminated => obs[i].add_calls = 0

(* C23: insert_memory returns success = True if and only if it called      *)
(* add_memory and the call returned without raising; the result carries an *)
(* identifier exactly then, and it is the value add_memory returned; every *)
(* failure result has success = False, a message and no identifier.        *)
C23_ResultFaithful ==
    \A i \in Invs :
        ( loc[i].kind = "insert" /\ pc[i] \in {"ret", "done"} /\ loc[i].raised = "" )
        => LET r == loc[i].result
               returned == /\ obs[i].add_calls = 1
                           /\ obs[i].added # NotAdded
                           /\ ~obs[i].added.raised
           IN  /\ r.success <=> returned
               /\ r.memory_id # NoId <=> returned
               /\ r.success => /\ r.memory_id = obs[i].added.doc_id
                               /\ r.message = MSG_OK
               /\ ~r.success => /\ r.memory_id = NoId
                                /\ r.message.id # ""
                                /\ r.message # MSG_OK

\* add_memory returned an identifier and insert_memory hands it on
C23_Witness ==
    \E i \in Invs :
        /\ loc[i].kind = "insert" /\ pc[i] = "ret"
        /\ obs[i].add_calls = 1
        /\ obs[i].added.doc_id \in DocIds
        /\ loc[i].result = Result(TRUE, MSG_OK, obs[i].added.doc_id)

=============================================================================
